---- MODULE Spec2Model ----
(***************************************************************************)
(* A model of SLOG, the simple logger (general_utils/slog.py): the logger  *)
(* registry (flyweight by name), the Logger attributes and handler lists,  *)
(* the broadcast algorithm and the Handler dispatch filter.                *)
(*                                                                         *)
(* The specifications share the state:                                     *)
(*   SpecRegistry  threads calling Logger(n) concurrently                  *)
(*   Spec          one thread configuring loggers and emitting messages    *)
(*   SpecHandler   a handler constructed with any arguments, then called   *)
(*   SpecThreads   threads emitting, attaching handlers and swapping them  *)
(*   SpecAttach    handler-management calls, one after another             *)
(*   SpecDeferred  a DeferredHandler / JustInCaseHandler receiving messages*)
(*   SpecFile      FileLogHandlers writing through queues and threads      *)
(*   SpecRoot      alternate_root blocks and lookups of the root name      *)
(*   SpecApi       config(), and message text through methods and facade   *)
(***************************************************************************)
EXTENDS Integers, Sequences, FiniteSets, TLC

VARIABLES
    _logger_cache,  \* slog._logger_cache: name -> Logger instance
    loggers,        \* the live Logger instances: instance id -> attributes
    handler_objs,   \* the Handler instances: handler id -> attributes
    pc,             \* SpecRegistry: where each thread is inside Logger(n)
    pending,        \* SpecRegistry: the (name, instance) a thread has constructed
    handle,         \* SpecRegistry: the instance each thread got back per name
    trace,          \* Spec: the leveled call in progress and what it invoked
    ops,            \* Spec: configuration statements executed so far
    ctor,           \* SpecHandler: the arguments the handler was constructed with
    hcall,          \* SpecHandler: the last handler invocation and its outcome
    handler_lock,     \* slog.handler_lock: the thread holding it, if any
    handler_ctx_lock, \* slog.handler_ctx_lock: the thread holding it, if any
    call,           \* SpecThreads: the broadcast each thread is inside
    block,          \* SpecThreads: the use_handlers block each thread is inside
    last_op,        \* SpecThreads: the last handler-management call and its hooks
    outcome,        \* SpecThreads: how each thread's last leveled call ended
    deferred,       \* SpecDeferred: the DeferredHandler instance
    arrived,        \* SpecDeferred: the invocations since the last dump
    replayed,       \* SpecDeferred: what the last dump dispatched
    cached_queues,  \* slog.cached_queues: path -> Queue
    cached_threads, \* slog.cached_threads: path -> Thread
    file_threads,   \* SpecFile: the threads started by get_file_thread
    logfiles,       \* SpecFile: what has been written to each path
    file_caller,    \* SpecFile: where the thread calling handle() is
    file_exits,     \* SpecFile: the removals that returned, and what each left behind
    root_lock,      \* slog.root_lock: the thread holding it, if any
    root_block,     \* SpecRoot: the alternate_root block each thread is inside
    last_root,      \* SpecRoot: the last alternate_root block that ended
    last_config,    \* SpecApi: the config() call just made, until a message is emitted
    sent            \* SpecApi: the leveled call in progress and the text handlers get

threadVars == <<handler_lock, handler_ctx_lock, call, block, last_op, outcome>>
deferVars == <<deferred, arrived, replayed>>
fileVars == <<cached_queues, cached_threads, file_threads, logfiles, file_caller,
              file_exits>>
rootVars == <<root_lock, root_block, last_root>>
apiVars == <<last_config, sent>>
laterVars == <<rootVars, apiVars>>

\* the state of the specifications added to the first three
extVars == <<threadVars, deferVars, fileVars, laterVars>>

vars == <<_logger_cache, loggers, handler_objs, pc, pending, handle, trace, ops,
          ctor, hcall, extVars>>

-----------------------------------------------------------------------------
(* Logging levels, slog.py lines 53-80 *)

NO_ACTION == -1
EXCEPTION == 0
ERROR == 1
WARNING == 2
INFO == 3
DEBUG == 4
ALWAYS_HANDLE == 5
DEFAULT_VERBOSITY == 3

\* the level write() passes to broadcast
WRITE_LEVEL == -1

\* Handler.__init__: the level a handler gets when none (or a falsy one) is given
HANDLER_DEFAULT_LEVEL == 100

\* BaseLogHandler.base_verbosity
base_verbosity == 5

-----------------------------------------------------------------------------
(* Bounds of the model *)

\* the longest call stack (frames from the caller of the leveled method outwards)
MaxStack == 1

\* how many configuration statements (attribute assignments, add_handler) run
MaxConfigOps == 3

\* how many threads call Logger(n)
NumThreads == 2

\* how many handler-management calls (add, remove, use_handlers) the threads make
MaxAttachOps == 3

\* the longest list of handlers passed to add_handlers, remove_handlers and
\* use_handlers
MaxHandlerList == 2

\* how many messages a DeferredHandler is invoked with
MaxMessages == 4

\* the largest max_cache_size a DeferredHandler is created with
MaxCacheSize == 2

\* how many times FileLogHandler.handle is called
MaxWrites == 3

\* how many parameters one config() call names
MaxNamed == 2

-----------------------------------------------------------------------------
(* Values *)

\* Python's None, and a present value, for optional attributes
None == <<>>
Some(v) == <<v>>

\* module names: the root module, a module "a" that creates a logger of its
\* own, and a module "b" that has none
ROOT == "__main__"
Names == {ROOT, "a", "b"}

\* the names Logger(n) is called with
LoggerNames == {ROOT, "a"}

\* the levels of the six leveled methods
MessageLevels == WRITE_LEVEL..DEBUG

\* the values assigned to Logger.level
LoggerLevels == EXCEPTION..DEBUG

\* the handler objects of the scenario
HandlerIds == {"base_log_handler", "h1", "hb"}

\* call stacks: the module of each frame, innermost first
Stacks == UNION {[1..n -> Names] : n \in 1..MaxStack}

Threads == 1..NumThreads

\* every order a dict's values() may come in
Orderings(S) ==
    {s \in [1..Cardinality(S) -> S] : \A i, j \in 1..Cardinality(S) : i # j => s[i] # s[j]}

Range(s) == {s[i] : i \in DOMAIN s}

Last(s) == s[Len(s)]

RECURSIVE Concat(_)
Concat(ss) == IF ss = <<>> THEN <<>> ELSE Head(ss) \o Concat(Tail(ss))

-----------------------------------------------------------------------------
(* Logger instances and the registry *)

\* Logger.__init__
Logger__init__(name) ==
    [name |-> name,
     lookup |-> name,
     _handlers |-> {},
     handlers |-> <<>>,
     _bypass_handlers |-> {},
     bypass_handlers |-> <<>>,
     standalone |-> FALSE,
     level |-> DEFAULT_VERBOSITY,
     overrides_submodule_level |-> FALSE,
     borrow_level_from |-> None,
     level_exclusive |-> FALSE,
     formatter |-> None]

\* the identity of the next object allocated
NewId(insts) == CHOOSE i \in 1..(Cardinality(DOMAIN insts) + 1) : i \notin DOMAIN insts

\* a plausible bug: the new instance replaces the cached one
setdefault_overwrite(cache, key, value) ==
    [k \in DOMAIN cache \cup {key} |-> IF k = key THEN value ELSE cache[k]]

\* dict.setdefault(key, value) as LogLookup_Meta.__call__ uses it: the dict
\* afterwards; what the call returns is its entry for key
setdefault(cache, key, value) ==
    IF key \in DOMAIN cache THEN cache ELSE cache @@ (key :> value)

\* instances nothing refers to any more are gone
Collect(insts, keep) == [i \in DOMAIN insts \cap keep |-> insts[i]]


\* type.__call__(cls, name): a new Logger instance is allocated and initialised
type__call__(insts, name) == insts @@ (NewId(insts) :> Logger__init__(name))

NoPending == [name |-> None, inst |-> None]

\* every instance something still refers to
Referenced(cache, pend, hdl) ==
    Range(cache)
    \cup {pend[t].inst[1] : t \in {u \in Threads : pend[u].inst # None}}
    \cup UNION {{hdl[t][n][1] : n \in {m \in LoggerNames : hdl[t][m] # None}} :
                t \in Threads}

\* LogLookup_Meta.__call__, first half: the argument of setdefault is evaluated,
\* which constructs a Logger whether or not the name is cached
Construct(t, n) ==
    /\ pc[t] = "idle"
    /\ loggers' = type__call__(loggers, n)
    /\ pending' = [pending EXCEPT ![t] = [name |-> Some(n), inst |-> Some(NewId(loggers))]]
    /\ pc' = [pc EXCEPT ![t] = "constructed"]
    /\ UNCHANGED <<_logger_cache, handler_objs, handle, trace, ops, ctor, hcall, extVars>>

\* LogLookup_Meta.__call__, second half: setdefault (one step under the GIL)
\* stores the new instance only if the name is absent and returns the cached one
SetDefault(t) ==
    /\ pc[t] = "constructed"
    /\ LET n == pending[t].name[1]
           cache == setdefault(_logger_cache, n, pending[t].inst[1])
           pend == [pending EXCEPT ![t] = NoPending]
           hdl == [handle EXCEPT ![t][n] = Some(cache[n])]
       IN /\ _logger_cache' = cache
          /\ pending' = pend
          /\ handle' = hdl
          /\ loggers' = Collect(loggers, Referenced(cache, pend, hdl))
    /\ pc' = [pc EXCEPT ![t] = "idle"]
    /\ UNCHANGED <<handler_objs, trace, ops, ctor, hcall, extVars>>

\* logger.level = v, through the handle a thread holds
AssignLevel(t, n, v) ==
    /\ handle[t][n] # None
    /\ loggers' = [loggers EXCEPT ![handle[t][n][1]].level = v]
    /\ UNCHANGED <<_logger_cache, handler_objs, pc, pending, handle, trace, ops,
                   ctor, hcall, extVars>>

-----------------------------------------------------------------------------
(* Handler instances *)

\* Python truth of an optional number: None and 0 are false
Truthy(opt) == opt # None /\ opt[1] # 0

\* a plausible bug: without a level the handler gets NO_ACTION
Handler__init__no_action(level, level_exclusive, always_evaluate) ==
    [always_evaluate |-> always_evaluate,
     level_exclusive |-> level_exclusive,
     level |-> IF Truthy(level) THEN level[1] ELSE NO_ACTION]

\* Handler.__init__(level, level_exclusive, always_evaluate)
Handler__init__(level, level_exclusive, always_evaluate) ==
    [always_evaluate |-> always_evaluate,
     level_exclusive |-> level_exclusive,
     level |-> IF Truthy(level) THEN level[1] ELSE HANDLER_DEFAULT_LEVEL]

\* BaseLogHandler.__init__
BaseLogHandler__init__ == Handler__init__(Some(base_verbosity), FALSE, FALSE)

\* the handlers the logging scenario of Spec uses: the console handler slog
\* creates on import, a normal handler and an always-evaluate handler
ScenarioHandlers ==
    [h \in HandlerIds |->
        CASE h = "base_log_handler" -> BaseLogHandler__init__
          [] h = "h1" -> Handler__init__(Some(INFO), FALSE, FALSE)
          [] h = "hb" -> Handler__init__(None, FALSE, TRUE)]

\* the state after "import slog": root_logger = Logger('__main__') with
\* base_log_handler added (slog.py, Global Initialization)
ImportedLoggers ==
    (1 :> [Logger__init__(ROOT) EXCEPT !._handlers = {"base_log_handler"},
                                       !.handlers = <<"base_log_handler">>])

ImportedCache == (ROOT :> 1)

-----------------------------------------------------------------------------
(* Logger.broadcast *)

\* get_mod_trace(frame): the module name of the frame and of every frame behind
\* it; a frame is given here by the modules of the stack from it outwards
get_mod_trace(frame) == [i \in 1..Len(frame) |-> frame[i]]

\* [x for x in seq if x not in visited and not visited_add(x)]
RECURSIVE first_seen(_, _)
first_seen(seq, visited) ==
    IF seq = <<>> THEN <<>>
    ELSE IF Head(seq) \in visited THEN first_seen(Tail(seq), visited)
    ELSE <<Head(seq)>> \o first_seen(Tail(seq), visited \cup {Head(seq)})

\* [x for x in seq if x not in visited and not visited_add(sm)]: what is added
\* to visited is sm, the variable the earlier comprehensions left behind
RECURSIVE not_visited_adding(_, _, _)
not_visited_adding(seq, visited, sm) ==
    IF seq = <<>> THEN <<>>
    ELSE IF Head(seq) \in visited THEN not_visited_adding(Tail(seq), visited, sm)
    ELSE <<Head(seq)>> \o not_visited_adding(Tail(seq), visited \cup {sm}, sm)

\* lines 340-351: the modules of the call stack, '__main__' appended unless this
\* is the root logger, duplicates removed
supermodules(self, frame) ==
    LET mods == get_mod_trace(frame)
        is_main == loggers[self].lookup = ROOT
    IN first_seen(IF ~is_main THEN Append(mods, ROOT) ELSE mods, {})

\* lines 353-354: the loggers registered for those modules
superloggers_all(self, frame) ==
    LET present == SelectSeq(supermodules(self, frame),
                             LAMBDA sm : sm \in DOMAIN _logger_cache)
    IN [i \in 1..Len(present) |-> _logger_cache[present[i]]]

\* line 356: the non-standalone ones: the resolved chain
superloggers(self, frame) ==
    SelectSeq(superloggers_all(self, frame), LAMBDA sl : ~loggers[sl].standalone)

\* the comprehension variable sm after line 354 (Python 2 keeps it): the last module
leaked_sm(self, frame) == Last(supermodules(self, frame))

\* lines 362-370: the always-evaluate handlers of the chain
bypass_pass(chain, sm) ==
    LET all == Concat([i \in 1..Len(chain) |-> loggers[chain[i]].bypass_handlers])
    IN IF all # <<>> THEN not_visited_adding(all, {}, sm) ELSE all

\* the policy a logger contributes
policy_of(lg) == [logger_level |-> lg.level, level_exclusive |-> lg.level_exclusive]

\* a plausible bug: the overriding logger of the chain is looked at first, a
\* borrowed level second
resolve_overrider_first(self, chain) ==
    LET me == loggers[self]
        level_overriders == SelectSeq(chain,
                                      LAMBDA sl : loggers[sl].overrides_submodule_level)
    IN IF level_overriders # <<>> THEN policy_of(loggers[Last(level_overriders)])
       ELSE IF me.borrow_level_from # None
               /\ me.borrow_level_from[1] \in DOMAIN _logger_cache
            THEN policy_of(loggers[_logger_cache[me.borrow_level_from[1]]])
       ELSE policy_of(me)

\* lines 379-397: logger_level and level_exclusive for this call;
\* borrow_level_from is looked at first, the overriding loggers only without it
resolve_level(self, chain) ==
    LET me == loggers[self]
        level_overriders == SelectSeq(chain,
                                      LAMBDA sl : loggers[sl].overrides_submodule_level)
    IN IF me.borrow_level_from = None
       THEN IF level_overriders # <<>>
            THEN policy_of(loggers[Last(level_overriders)])
            ELSE policy_of(me)
       ELSE IF me.borrow_level_from[1] \notin DOMAIN _logger_cache
            THEN policy_of(me)
            ELSE policy_of(loggers[_logger_cache[me.borrow_level_from[1]]])

\* lines 400-403: TRUE when broadcast returns before the normal pass
level_filter(level, logger_level, level_exclusive) ==
    IF level_exclusive /\ level # logger_level THEN TRUE
    ELSE IF ~level_exclusive /\ level > logger_level THEN TRUE
    ELSE FALSE

\* lines 407-417: the handlers of the chain, or this logger's own if the chain is empty
normal_pass(self, chain, sm) ==
    LET superhandlers ==
            IF chain # <<>>
            THEN Concat([i \in 1..Len(chain) |-> loggers[chain[i]].handlers])
            ELSE loggers[self].handlers
    IN not_visited_adding(superhandlers, {}, sm)

Invocations(hs, pass) == [i \in 1..Len(hs) |-> [handler |-> hs[i], pass |-> pass]]

\* lines 326-332: a standalone logger calls its handlers, then its bypass handlers
broadcast_standalone(self, frame, level) ==
    [calls |-> Invocations(loggers[self].handlers \o loggers[self].bypass_handlers,
                           "standalone"),
     policy |-> None,
     filtered |-> FALSE]

\* lines 340-427: the bypass pass, the level filter and the normal pass
broadcast_chain(self, frame, level) ==
    LET chain == superloggers(self, frame)
        sm == leaked_sm(self, frame)
        policy == resolve_level(self, chain)
        filtered == level_filter(level, policy.logger_level, policy.level_exclusive)
    IN [calls |-> Invocations(bypass_pass(chain, sm), "bypass")
                  \o (IF filtered THEN <<>>
                      ELSE Invocations(normal_pass(self, chain, sm), "normal")),
        policy |-> Some(policy),
        filtered |-> filtered]

\* a plausible bug: the standalone branch does not return
broadcast_fallthrough(self, frame, level) ==
    IF loggers[self].standalone
    THEN [broadcast_chain(self, frame, level) EXCEPT
              !.calls = broadcast_standalone(self, frame, level).calls \o @]
    ELSE broadcast_chain(self, frame, level)

\* Logger.broadcast(message, level=level), called from frame: the handlers it
\* invokes in order, the policy it resolved and whether the filter returned early
broadcast(self, frame, level) ==
    IF loggers[self].standalone
    THEN broadcast_standalone(self, frame, level)
    ELSE broadcast_chain(self, frame, level)

-----------------------------------------------------------------------------
(* The state right after "import slog" of what the later specifications use *)

\* the locks are free (lines 49-50), no thread is inside a leveled method or a
\* use_handlers block, no handler-management call has been made
ThreadsIdle ==
    /\ handler_lock = None
    /\ handler_ctx_lock = None
    /\ call = [t \in Threads |-> None]
    /\ block = [t \in Threads |-> None]
    /\ last_op = None
    /\ outcome = [t \in Threads |-> None]

\* no DeferredHandler has been created
NoDeferred ==
    /\ deferred = None
    /\ arrived = [log |-> <<>>, mark |-> 0]
    /\ replayed = None

\* cached_queues = dict(), cached_threads = dict() (lines 733, 738); no thread
\* has been started and nothing written
NoFiles ==
    /\ cached_queues = <<>>
    /\ cached_threads = <<>>
    /\ file_threads = <<>>
    /\ logfiles = <<>>
    /\ file_caller = [t \in Threads |-> None]
    /\ file_exits = {}

\* root_lock is free (line 51) and no thread is inside an alternate_root block
RootIdle ==
    /\ root_lock = None
    /\ root_block = [t \in Threads |-> None]
    /\ last_root = None

\* neither config() nor a leveled method or facade function has been called
ApiIdle ==
    /\ last_config = None
    /\ sent = None

-----------------------------------------------------------------------------
(* Spec: one thread creates and configures loggers and emits messages *)

\* Logger(n) by a single thread: construct, setdefault, drop the unused instance
LoggerCall(n) ==
    /\ trace = None
    /\ LET cache == setdefault(_logger_cache, n, NewId(loggers))
       IN /\ _logger_cache' = cache
          /\ loggers' = Collect(type__call__(loggers, n), Range(cache))
    /\ UNCHANGED <<handler_objs, pc, pending, handle, trace, ops, ctor, hcall, extVars>>

\* what every configuration statement shares: it runs between two leveled calls
Configure(new_loggers) ==
    /\ trace = None
    /\ ops < MaxConfigOps
    /\ ops' = ops + 1
    /\ loggers' = new_loggers
    /\ UNCHANGED <<_logger_cache, handler_objs, pc, pending, handle, trace, ctor, hcall, extVars>>

\* logger.standalone = v
SetStandalone(l, v) ==
    /\ loggers[l].standalone # v
    /\ Configure([loggers EXCEPT ![l].standalone = v])

\* logger.level = v
SetLevel(l, v) ==
    /\ loggers[l].level # v
    /\ Configure([loggers EXCEPT ![l].level = v])

\* logger.overrides_submodule_level = v
SetOverridesSubmoduleLevel(l, v) ==
    /\ loggers[l].overrides_submodule_level # v
    /\ Configure([loggers EXCEPT ![l].overrides_submodule_level = v])

\* logger.level_exclusive = v
SetLevelExclusive(l, v) ==
    /\ loggers[l].level_exclusive # v
    /\ Configure([loggers EXCEPT ![l].level_exclusive = v])

\* logger.borrow_level_from = n (the name of a logger that may or may not exist)
SetBorrowLevelFrom(l, n) ==
    /\ loggers[l].borrow_level_from # n
    /\ Configure([loggers EXCEPT ![l].borrow_level_from = n])

\* Logger.add_handler(handler): filed by always_evaluate under id(handler), then
\* both lists are rebuilt from the dicts' values(), whose order is the dict's
add_handler(l, h) ==
    LET always_eval == handler_objs[h].always_evaluate
        _handlers == IF ~always_eval THEN loggers[l]._handlers \cup {h}
                     ELSE loggers[l]._handlers
        _bypass_handlers == IF ~always_eval THEN loggers[l]._bypass_handlers
                            ELSE loggers[l]._bypass_handlers \cup {h}
    IN \E hs \in Orderings(_handlers), bs \in Orderings(_bypass_handlers) :
           Configure([loggers EXCEPT ![l]._handlers = _handlers,
                                     ![l]._bypass_handlers = _bypass_handlers,
                                     ![l].handlers = hs,
                                     ![l].bypass_handlers = bs])

\* a leveled method: with handler_lock: self.broadcast(message, level=level)
Leveled(self, frame, level) ==
    /\ trace = None
    /\ trace' = Some([logger |-> self, frame |-> frame, level |-> level]
                     @@ broadcast(self, frame, level))
    /\ UNCHANGED <<_logger_cache, loggers, handler_objs, pc, pending, handle, ops,
                   ctor, hcall, extVars>>

\* Logger.exception
exception(self, frame) == Leveled(self, frame, 0)

\* Logger.error
error(self, frame) == Leveled(self, frame, 1)

\* Logger.warning
warning(self, frame) == Leveled(self, frame, 2)

\* Logger.info
info(self, frame) == Leveled(self, frame, 3)

\* Logger.debug
debug(self, frame) == Leveled(self, frame, 4)

\* Logger.write
write(self, frame) == Leveled(self, frame, WRITE_LEVEL)

\* the leveled method returns; handler_lock is released
Return ==
    /\ trace # None
    /\ trace' = None
    /\ UNCHANGED <<_logger_cache, loggers, handler_objs, pc, pending, handle, ops,
                   ctor, hcall, extVars>>

Init ==
    /\ _logger_cache = ImportedCache
    /\ loggers = ImportedLoggers
    /\ handler_objs = ScenarioHandlers
    /\ pc = [t \in Threads |-> "idle"]
    /\ pending = [t \in Threads |-> NoPending]
    /\ handle = [t \in Threads |-> [n \in LoggerNames |-> None]]
    /\ trace = None
    /\ ops = 0
    /\ ctor = None
    /\ hcall = None
    /\ ThreadsIdle
    /\ NoDeferred
    /\ NoFiles
    /\ RootIdle
    /\ ApiIdle

Next ==
    \/ \E n \in LoggerNames : LoggerCall(n)
    \/ \E l \in DOMAIN loggers, v \in BOOLEAN : SetStandalone(l, v)
    \/ \E l \in DOMAIN loggers, v \in LoggerLevels : SetLevel(l, v)
    \/ \E l \in DOMAIN loggers, v \in BOOLEAN : SetOverridesSubmoduleLevel(l, v)
    \/ \E l \in DOMAIN loggers, v \in BOOLEAN : SetLevelExclusive(l, v)
    \/ \E l \in DOMAIN loggers, n \in {None} \cup {Some(m) : m \in Names} :
           SetBorrowLevelFrom(l, n)
    \/ \E l \in DOMAIN loggers, h \in HandlerIds : add_handler(l, h)
    \/ \E l \in DOMAIN loggers, f \in Stacks : exception(l, f)
    \/ \E l \in DOMAIN loggers, f \in Stacks : error(l, f)
    \/ \E l \in DOMAIN loggers, f \in Stacks : warning(l, f)
    \/ \E l \in DOMAIN loggers, f \in Stacks : info(l, f)
    \/ \E l \in DOMAIN loggers, f \in Stacks : debug(l, f)
    \/ \E l \in DOMAIN loggers, f \in Stacks : write(l, f)
    \/ Return

Spec == Init /\ [][Next]_vars

-----------------------------------------------------------------------------
(* SpecRegistry: threads call Logger(n) and assign through the handles they get *)

NextRegistry ==
    \/ \E t \in Threads, n \in LoggerNames : Construct(t, n)
    \/ \E t \in Threads : SetDefault(t)
    \/ \E t \in Threads, n \in LoggerNames, v \in LoggerLevels : AssignLevel(t, n, v)

SpecRegistry == Init /\ [][NextRegistry]_vars

-----------------------------------------------------------------------------
(* SpecHandler: a handler constructed with any arguments, invoked at any level *)

\* a plausible bug: the comparison of the threshold is the other way round
Handler__call__flipped(h, level) ==
    IF ~h.always_evaluate
       /\ \/ ~h.level_exclusive /\ level < h.level
          \/ h.level_exclusive /\ level # h.level
    THEN FALSE
    ELSE TRUE

\* Handler.__call__(message, level): TRUE when the level method is called, FALSE
\* when the handler's own filter returns first
Handler__call__(h, level) ==
    IF ~h.always_evaluate
       /\ \/ ~h.level_exclusive /\ level > h.level
          \/ h.level_exclusive /\ level # h.level
    THEN FALSE
    ELSE TRUE

\* the level argument of a handler constructor: absent, or any level constant
CtorLevels == {None} \cup {Some(l) : l \in NO_ACTION..ALWAYS_HANDLE}

\* h1 = Handler(level, level_exclusive, always_evaluate), for every argument
InitHandler ==
    /\ _logger_cache = ImportedCache
    /\ loggers = ImportedLoggers
    /\ pc = [t \in Threads |-> "idle"]
    /\ pending = [t \in Threads |-> NoPending]
    /\ handle = [t \in Threads |-> [n \in LoggerNames |-> None]]
    /\ trace = None
    /\ ops = 0
    /\ hcall = None
    /\ ThreadsIdle
    /\ NoDeferred
    /\ NoFiles
    /\ RootIdle
    /\ ApiIdle
    /\ \E level \in CtorLevels, level_exclusive \in BOOLEAN, always_evaluate \in BOOLEAN :
           /\ ctor = Some([level |-> level, level_exclusive |-> level_exclusive,
                           always_evaluate |-> always_evaluate, level_set |-> FALSE])
           /\ handler_objs = [ScenarioHandlers EXCEPT
                  !["h1"] = Handler__init__(level, level_exclusive, always_evaluate)]

\* a logger invokes handler(message, level=level)
HandlerCall(h, level) ==
    /\ hcall = None
    /\ hcall' = Some([handler |-> h, level |-> level,
                      acted |-> Handler__call__(handler_objs[h], level)])
    /\ UNCHANGED <<_logger_cache, loggers, handler_objs, pc, pending, handle, trace,
                   ops, ctor, extVars>>

\* the invocation returns
HandlerReturn ==
    /\ hcall # None
    /\ hcall' = None
    /\ UNCHANGED <<_logger_cache, loggers, handler_objs, pc, pending, handle, trace,
                   ops, ctor, extVars>>

\* h1.level = v
SetHandlerLevel(v) ==
    /\ hcall = None
    /\ handler_objs' = [handler_objs EXCEPT !["h1"].level = v]
    /\ ctor' = Some([ctor[1] EXCEPT !.level_set = TRUE])
    /\ UNCHANGED <<_logger_cache, loggers, pc, pending, handle, trace, ops, hcall, extVars>>

NextHandler ==
    \/ \E h \in HandlerIds, level \in MessageLevels : HandlerCall(h, level)
    \/ HandlerReturn
    \/ \E v \in NO_ACTION..ALWAYS_HANDLE : SetHandlerLevel(v)

SpecHandler == InitHandler /\ [][NextHandler]_vars

-----------------------------------------------------------------------------
(* SpecThreads: threads emit messages, attach and detach handlers and swap   *)
(* the handler list of the root logger                                       *)

\* what the state of every other specification keeps
ThreadsKeep == <<_logger_cache, handler_objs, pc, pending, handle, trace, ctor, hcall,
                 deferVars, fileVars, laterVars>>

\* how often x occurs in a sequence
Count(seq, x) == Cardinality({i \in DOMAIN seq : seq[i] = x})

\* the handlers filed in a logger's two dicts
Filed(lg) == lg._handlers \cup lg._bypass_handlers

\* add_handler, lines 244-251: the handler is filed under id(handler) in the
\* dict its always_evaluate selects
file_handler(lg, h) ==
    IF ~handler_objs[h].always_evaluate
    THEN [lg EXCEPT !._handlers = @ \cup {h}]
    ELSE [lg EXCEPT !._bypass_handlers = @ \cup {h}]

\* remove_handler, lines 262-269: dict.pop(id(handler)) raises KeyError for a
\* handler that is not in the dict its always_evaluate selects
pop_raises(lg, h) ==
    IF ~handler_objs[h].always_evaluate THEN h \notin lg._handlers
    ELSE h \notin lg._bypass_handlers

pop_handler(lg, h) ==
    IF ~handler_objs[h].always_evaluate
    THEN [lg EXCEPT !._handlers = @ \ {h}]
    ELSE [lg EXCEPT !._bypass_handlers = @ \ {h}]

\* the loop of add_handlers, lines 276-277
RECURSIVE add_loop(_, _)
add_loop(lg, hs) ==
    IF hs = <<>> THEN lg ELSE add_loop(file_handler(lg, Head(hs)), Tail(hs))

\* the loop of remove_handlers, lines 283-284: exit_handler is called on each
\* handler before its pop; a KeyError ends the loop
RECURSIVE remove_loop(_, _, _)
remove_loop(lg, hs, exits) ==
    IF hs = <<>> THEN [lg |-> lg, exit |-> exits, raised |-> FALSE]
    ELSE IF pop_raises(lg, Head(hs))
         THEN [lg |-> lg, exit |-> Append(exits, Head(hs)), raised |-> TRUE]
         ELSE remove_loop(pop_handler(lg, Head(hs)), Tail(hs), Append(exits, Head(hs)))

\* self.handlers = self._handlers.values();
\* self.bypass_handlers = self._bypass_handlers.values()
Refreshed(lg) ==
    {[lg EXCEPT !.handlers = hs, !.bypass_handlers = bs] :
        hs \in Orderings(lg._handlers), bs \in Orderings(lg._bypass_handlers)}

\* a handler-management call on logger l ends: the logger afterwards, and the
\* record of the call (the hooks it called, in order, and whether it raised)
Managed(op, l, hs, lg, enter, exit, raised) ==
    /\ ops < MaxAttachOps
    /\ ops' = ops + 1
    /\ loggers' = [loggers EXCEPT ![l] = lg]
    /\ last_op' = Some([op |-> op, logger |-> l, handlers |-> hs,
                        original_handlers |-> loggers[l].handlers,
                        before |-> Filed(loggers[l]), after |-> Filed(lg),
                        enter |-> enter, exit |-> exit, raised |-> raised])
    /\ UNCHANGED <<handler_lock, handler_ctx_lock, call, block, outcome, ThreadsKeep>>

\* Logger.add_handler(handler) with its enter_handler hook, lines 238-254
add_handler_hooked(l, h) ==
    \E lg \in Refreshed(file_handler(loggers[l], h)) :
        Managed("add_handler", l, <<h>>, lg, <<h>>, <<>>, FALSE)

\* Logger.remove_handler(handler), lines 256-272
remove_handler(l, h) ==
    IF pop_raises(loggers[l], h)
    THEN Managed("remove_handler", l, <<h>>, loggers[l], <<>>, <<h>>, TRUE)
    ELSE \E lg \in Refreshed(pop_handler(loggers[l], h)) :
             Managed("remove_handler", l, <<h>>, lg, <<>>, <<h>>, FALSE)

\* Logger.add_handlers(handlers), lines 274-279
add_handlers(l, hs) ==
    \E lg \in Refreshed(add_loop(loggers[l], hs)) :
        Managed("add_handlers", l, hs, lg, hs, <<>>, FALSE)

\* Logger.remove_handlers(handlers), lines 281-286: after a KeyError the lists
\* are not rebuilt
remove_handlers(l, hs) ==
    LET r == remove_loop(loggers[l], hs, <<>>)
    IN IF r.raised
       THEN Managed("remove_handlers", l, hs, r.lg, <<>>, r.exit, TRUE)
       ELSE \E lg \in Refreshed(r.lg) :
                Managed("remove_handlers", l, hs, lg, <<>>, r.exit, FALSE)

\* the two handler lists of every logger, as a broadcast finds them
HandlerLists == [l \in DOMAIN loggers |->
                    [_handlers |-> loggers[l]._handlers,
                     _bypass_handlers |-> loggers[l]._bypass_handlers,
                     bypass_handlers |-> loggers[l].bypass_handlers]]

\* a leveled method is entered: handler_lock is acquired (lines 433-463) and
\* broadcast runs up to its first handler invocation: the standalone branch
\* (lines 326-331) or the chain and the bypass list (lines 340-370)
LeveledEnter(t, self, frame, level) ==
    /\ call[t] = None
    /\ handler_lock = None
    /\ handler_lock' = Some(t)
    /\ LET chain == superloggers(self, frame)
           sm == leaked_sm(self, frame)
       IN call' = [call EXCEPT ![t] =
              Some([logger |-> self, level |-> level, chain |-> chain, sm |-> sm,
                    phase |-> IF loggers[self].standalone THEN "final" ELSE "bypass",
                    todo |-> IF loggers[self].standalone
                             THEN broadcast_standalone(self, frame, level).calls
                             ELSE Invocations(bypass_pass(chain, sm), "bypass"),
                    lists |-> HandlerLists])]
    /\ outcome' = [outcome EXCEPT ![t] = None]
    /\ UNCHANGED <<loggers, ops, handler_ctx_lock, block, last_op, ThreadsKeep>>

\* handler(message, level=level, **kwargs) returns (lines 331, 376, 427)
InvokeHandler(t) ==
    /\ call[t] # None
    /\ call[t][1].todo # <<>>
    /\ call[t][1].phase # "waiting"
    /\ call' = [call EXCEPT ![t] = Some([@[1] EXCEPT !.todo = Tail(@)])]
    /\ UNCHANGED <<loggers, ops, handler_lock, handler_ctx_lock, block, last_op,
                   outcome, ThreadsKeep>>

\* what broadcast would still invoke after the handler at the head of todo
Remaining(c) ==
    LET policy == resolve_level(c.logger, c.chain)
        later == IF c.phase = "bypass"
                    /\ ~level_filter(c.level, policy.logger_level, policy.level_exclusive)
                 THEN normal_pass(c.logger, c.chain, c.sm)
                 ELSE <<>>
    IN {c.todo[i].handler : i \in 2..Len(c.todo)} \cup Range(later)

\* handler(message, level=level, **kwargs) raises: nothing in broadcast or in
\* the leveled method catches it; the with statement releases handler_lock and
\* the exception reaches the caller
HandlerRaises(t) ==
    /\ call[t] # None
    /\ call[t][1].todo # <<>>
    /\ call[t][1].phase # "waiting"
    /\ handler_lock' = None
    /\ call' = [call EXCEPT ![t] = None]
    /\ outcome' = [outcome EXCEPT ![t] =
                       Some([raised |-> TRUE, skipped |-> Remaining(call[t][1])])]
    /\ UNCHANGED <<loggers, ops, handler_ctx_lock, block, last_op, ThreadsKeep>>

\* the handler being invoked calls a leveled method of a Logger, or a facade
\* function, on the thread of the broadcast: the with statement of that method
\* (lines 433-463) waits for handler_lock, a threading.Lock (line 49), which
\* is not reentrant
HandlerEmits(t) ==
    /\ call[t] # None
    /\ call[t][1].todo # <<>>
    /\ call[t][1].phase # "waiting"
    /\ handler_lock # None
    /\ call' = [call EXCEPT ![t] = Some([@[1] EXCEPT !.phase = "waiting"])]
    /\ UNCHANGED <<loggers, ops, handler_lock, handler_ctx_lock, block, last_op,
                   outcome, ThreadsKeep>>

\* lines 379-417, after the bypass pass: the level is resolved, the filter may
\* return, the normal handlers are listed from the loggers as they are now
LoggerLevelFilter(t) ==
    /\ call[t] # None
    /\ call[t][1].phase = "bypass"
    /\ call[t][1].todo = <<>>
    /\ LET c == call[t][1]
           policy == resolve_level(c.logger, c.chain)
           filtered == level_filter(c.level, policy.logger_level, policy.level_exclusive)
       IN call' = [call EXCEPT ![t] =
              Some([c EXCEPT !.phase = "final",
                             !.todo = IF filtered THEN <<>>
                                      ELSE Invocations(normal_pass(c.logger, c.chain, c.sm),
                                                       "normal")])]
    /\ UNCHANGED <<loggers, ops, handler_lock, handler_ctx_lock, block, last_op,
                   outcome, ThreadsKeep>>

\* broadcast returns and the with statement releases handler_lock
LeveledExit(t) ==
    /\ call[t] # None
    /\ call[t][1].phase = "final"
    /\ call[t][1].todo = <<>>
    /\ handler_lock' = None
    /\ call' = [call EXCEPT ![t] = None]
    /\ outcome' = [outcome EXCEPT ![t] = Some([raised |-> FALSE, skipped |-> {}])]
    /\ UNCHANGED <<loggers, ops, handler_ctx_lock, block, last_op, ThreadsKeep>>

\* with logger.use_handlers(handlers): lines 295-303, up to the yield
use_handlers_enter(t, l, hs) ==
    /\ IF block[t] = None THEN TRUE ELSE ~block[t][1].inside
    /\ call[t] = None
    /\ handler_ctx_lock = None
    /\ ops < MaxAttachOps
    /\ ops' = ops + 1
    /\ handler_ctx_lock' = Some(t)
    /\ block' = [block EXCEPT ![t] =
                    Some([logger |-> l, handlers |-> hs,
                          original_handlers |-> loggers[l].handlers,
                          inside |-> TRUE])]
    /\ loggers' = [loggers EXCEPT ![l].handlers = hs]
    /\ last_op' = Some([op |-> "use_handlers_enter", logger |-> l, handlers |-> hs,
                        original_handlers |-> loggers[l].handlers,
                        before |-> Filed(loggers[l]), after |-> Filed(loggers[l]),
                        enter |-> hs, exit |-> <<>>, raised |-> FALSE])
    /\ UNCHANGED <<handler_lock, call, outcome, ThreadsKeep>>

\* the block ends normally: lines 304-309, then handler_ctx_lock is released
use_handlers_exit(t) ==
    /\ block[t] # None
    /\ block[t][1].inside
    /\ call[t] = None
    /\ LET b == block[t][1]
       IN /\ loggers' = [loggers EXCEPT ![b.logger].handlers = b.original_handlers]
          /\ last_op' = Some([op |-> "use_handlers", logger |-> b.logger,
                              handlers |-> b.handlers,
                              original_handlers |-> b.original_handlers,
                              before |-> Filed(loggers[b.logger]),
                              after |-> Filed(loggers[b.logger]),
                              enter |-> <<>>, exit |-> b.handlers, raised |-> FALSE])
    /\ handler_ctx_lock' = None
    /\ block' = [block EXCEPT ![t] = None]
    /\ UNCHANGED <<ops, handler_lock, call, outcome, ThreadsKeep>>

\* the block raises: the exception is thrown into the generator at the yield
\* of line 303, no finally clause runs lines 304-309, and the with statement
\* of line 295 releases handler_ctx_lock
use_handlers_raise(t) ==
    /\ block[t] # None
    /\ block[t][1].inside
    /\ call[t] = None
    /\ LET b == block[t][1]
       IN last_op' = Some([op |-> "use_handlers", logger |-> b.logger,
                           handlers |-> b.handlers,
                           original_handlers |-> b.original_handlers,
                           before |-> Filed(loggers[b.logger]),
                           after |-> Filed(loggers[b.logger]),
                           enter |-> <<>>, exit |-> <<>>, raised |-> TRUE])
    /\ handler_ctx_lock' = None
    /\ block' = [block EXCEPT ![t] = Some([@[1] EXCEPT !.inside = FALSE])]
    /\ UNCHANGED <<loggers, ops, handler_lock, call, outcome, ThreadsKeep>>

\* the lists of handlers the management calls are given
HandlerArgs == UNION {[1..n -> HandlerIds] : n \in 1..MaxHandlerList}

\* the levels of the messages the threads emit: one the root logger's default
\* level lets through and one it filters
ThreadLevels == {INFO, DEBUG}

NextThreads ==
    \/ \E l \in DOMAIN loggers, h \in HandlerIds : add_handler_hooked(l, h)
    \/ \E l \in DOMAIN loggers, h \in HandlerIds : remove_handler(l, h)
    \/ \E t \in Threads, l \in DOMAIN loggers, f \in Stacks, level \in ThreadLevels :
           LeveledEnter(t, l, f, level)
    \/ \E t \in Threads : InvokeHandler(t)
    \/ \E t \in Threads : HandlerRaises(t)
    \/ \E t \in Threads : HandlerEmits(t)
    \/ \E t \in Threads : LoggerLevelFilter(t)
    \/ \E t \in Threads : LeveledExit(t)
    \/ \E t \in Threads, l \in DOMAIN loggers, h \in HandlerIds :
           use_handlers_enter(t, l, <<h>>)
    \/ \E t \in Threads : use_handlers_exit(t)
    \/ \E t \in Threads : use_handlers_raise(t)

SpecThreads == Init /\ [][NextThreads]_vars

-----------------------------------------------------------------------------
(* SpecAttach: handler-management calls on the root logger, one after another *)

NextAttach ==
    \/ \E l \in DOMAIN loggers, h \in HandlerIds : add_handler_hooked(l, h)
    \/ \E l \in DOMAIN loggers, h \in HandlerIds : remove_handler(l, h)
    \/ \E l \in DOMAIN loggers, hs \in HandlerArgs : add_handlers(l, hs)
    \/ \E l \in DOMAIN loggers, hs \in HandlerArgs : remove_handlers(l, hs)
    \/ \E t \in Threads, l \in DOMAIN loggers, hs \in HandlerArgs :
           use_handlers_enter(t, l, hs)
    \/ \E t \in Threads : use_handlers_exit(t)
    \/ \E t \in Threads : use_handlers_raise(t)

SpecAttach == Init /\ [][NextAttach]_vars

-----------------------------------------------------------------------------
(* SpecDeferred: a DeferredHandler or JustInCaseHandler, constructed with any *)
(* arguments, is invoked with messages and dumped                             *)

\* Handler.verb_map, lines 483-489: the method a level is dispatched to
verb_map ==
    (99 :> "no_action") @@ (4 :> "handle_debug") @@ (3 :> "handle_info")
    @@ (2 :> "handle_warning") @@ (1 :> "handle_error")
    @@ (0 :> "handle_exception") @@ (-1 :> "handle")

\* the cache_levels argument: absent, empty, the two sets of the documentation's
\* examples, and every level
CacheLevelArgs ==
    {None, Some({}), Some({INFO, ERROR}), Some({DEBUG, ERROR}), Some(MessageLevels)}

\* the max_cache_size argument
CacheSizeArgs == {None} \cup {Some(n) : n \in 1..MaxCacheSize}

\* the handler class and its trigger_level: None for a plain DeferredHandler,
\* else the trigger level of a JustInCaseHandler (0 by default)
TriggerArgs == {None, Some(EXCEPTION), Some(ERROR)}

\* DeferredHandler.__init__, lines 581-583, and JustInCaseHandler.__init__;
\* maxlen is the maxlen of the object self.cache is bound to (None: unbounded)
DeferredHandler__init__(max_cache_size, cache_levels, trigger_level) ==
    [cache_levels |-> IF cache_levels # None /\ cache_levels[1] # {}
                      THEN cache_levels[1] ELSE 0..5,
     max_cache_size |-> max_cache_size,
     maxlen |-> max_cache_size,
     cache |-> <<>>,
     trigger_level |-> trigger_level]

\* cache.append(x) on a deque(maxlen) or a list: a full deque drops its oldest
append(cache, maxlen, x) ==
    IF maxlen # None /\ Len(cache) >= maxlen[1]
    THEN Tail(cache) \o <<x>>
    ELSE cache \o <<x>>

\* a plausible bug: every message is cached, whatever its level
DeferredHandler__call__unfiltered(d, message, level) ==
    [d EXCEPT !.cache = append(d.cache, d.maxlen, [message |-> message, level |-> level])]

\* DeferredHandler.__call__, lines 592-596
DeferredHandler__call__(d, message, level) ==
    IF level \in d.cache_levels
    THEN [d EXCEPT !.cache = append(d.cache, d.maxlen,
                                    [message |-> message, level |-> level])]
    ELSE d

\* a plausible bug: the cache is replayed newest first
dispatches_lifo(cache) ==
    [i \in 1..Len(cache) |->
        [message |-> cache[Len(cache) + 1 - i].message,
         level |-> cache[Len(cache) + 1 - i].level,
         method |-> verb_map[cache[Len(cache) + 1 - i].level]]]

\* DeferredHandler.dump, lines 587-589: the calls level_method(message, level)
dispatches(cache) ==
    [i \in 1..Len(cache) |->
        [message |-> cache[i].message, level |-> cache[i].level,
         method |-> verb_map[cache[i].level]]]

\* DeferredHandler.dump, line 590: self.cache = [], a list
dump(d) == [d EXCEPT !.cache = <<>>, !.maxlen = None]

\* a plausible bug: the trigger level itself does not trigger
triggers_below(d, level) == d.trigger_level # None /\ level < d.trigger_level[1]

\* JustInCaseHandler.__call__, line 611
triggers(d, level) == d.trigger_level # None /\ level <= d.trigger_level[1]

\* the messages that arrived since the last dump
Since == SubSeq(arrived.log, arrived.mark + 1, Len(arrived.log))

\* handler = DeferredHandler(...) or JustInCaseHandler(...), for every argument
InitDeferred ==
    /\ _logger_cache = ImportedCache
    /\ loggers = ImportedLoggers
    /\ handler_objs = ScenarioHandlers
    /\ pc = [t \in Threads |-> "idle"]
    /\ pending = [t \in Threads |-> NoPending]
    /\ handle = [t \in Threads |-> [n \in LoggerNames |-> None]]
    /\ trace = None
    /\ ops = 0
    /\ ctor = None
    /\ hcall = None
    /\ ThreadsIdle
    /\ NoFiles
    /\ RootIdle
    /\ ApiIdle
    /\ \E max_cache_size \in CacheSizeArgs, cache_levels \in CacheLevelArgs,
          trigger_level \in TriggerArgs :
           deferred = Some(DeferredHandler__init__(max_cache_size, cache_levels,
                                                   trigger_level))
    /\ arrived = [log |-> <<>>, mark |-> 0]
    /\ replayed = None

\* handler(message, level=level): DeferredHandler.__call__, and for a
\* JustInCaseHandler the dump of lines 611-612
DeferredCall(level) ==
    /\ Len(arrived.log) < MaxMessages
    /\ LET message == Len(arrived.log) + 1
           d == DeferredHandler__call__(deferred[1], message, level)
           log == Append(arrived.log, [message |-> message, level |-> level])
       IN IF triggers(d, level)
          THEN /\ deferred' = Some(dump(d))
               /\ replayed' = Some([entries |-> dispatches(d.cache), by |-> "trigger",
                                    before |-> Since \o <<[message |-> message,
                                                           level |-> level]>>,
                                    maxlen |-> d.maxlen])
               /\ arrived' = [log |-> log, mark |-> Len(log)]
          ELSE /\ deferred' = Some(d)
               /\ replayed' = None
               /\ arrived' = [log |-> log, mark |-> arrived.mark]
    /\ UNCHANGED <<_logger_cache, loggers, handler_objs, pc, pending, handle, trace,
                   ops, ctor, hcall, threadVars, fileVars, laterVars>>

\* handler.dump()
DeferredDump ==
    /\ deferred' = Some(dump(deferred[1]))
    /\ replayed' = Some([entries |-> dispatches(deferred[1].cache), by |-> "dump",
                         before |-> Since, maxlen |-> deferred[1].maxlen])
    /\ arrived' = [arrived EXCEPT !.mark = Len(arrived.log)]
    /\ UNCHANGED <<_logger_cache, loggers, handler_objs, pc, pending, handle, trace,
                   ops, ctor, hcall, threadVars, fileVars, laterVars>>

NextDeferred ==
    \/ \E level \in MessageLevels : DeferredCall(level)
    \/ DeferredDump

SpecDeferred == InitDeferred /\ [][NextDeferred]_vars

-----------------------------------------------------------------------------
(* SpecFile: FileLogHandlers put entries on the queue of their path and      *)
(* worker threads write them to the file                                     *)

FileKeep == <<_logger_cache, loggers, handler_objs, pc, pending, handle, trace, ops,
              ctor, hcall, threadVars, deferVars, laterVars>>

\* the destination paths
Paths == {"p", "q"}

\* the FileLogHandler instances: two that target the same path, one of them
\* created with join_main=False, and one for another path; all have a footer
FileHandlerIds == {"fh1", "fh2", "fh3"}

\* FileLogHandler.__init__, lines 644-655
FileLogHandler__init__(filepath, footer, join_main) ==
    [filepath |-> filepath, footer |-> footer, join_main |-> join_main]

FileHandlers ==
    [h \in FileHandlerIds |->
        CASE h = "fh1" -> FileLogHandler__init__("p", Some("footer"), TRUE)
          [] h = "fh2" -> FileLogHandler__init__("p", Some("footer"), FALSE)
          [] h = "fh3" -> FileLogHandler__init__("q", Some("footer"), TRUE)]

\* Queue(maxsize=0)
Queue == [queue |-> <<>>, unfinished_tasks |-> 0]

\* get_file_queue(filename), line 735: the dict afterwards
get_file_queue(filename) == setdefault(cached_queues, filename, Queue)

\* get_file_thread(filename, queue), lines 740-748: the threads afterwards;
\* cached_threads is looked up but never written, so a thread is started
get_file_thread(filename) ==
    IF filename \in DOMAIN cached_threads
    THEN file_threads
    ELSE Append(file_threads, [queue |-> filename, state |-> "get", item |-> None])

\* Queue.put(item)
put(q, item) == [queue |-> Append(q.queue, item),
                 unfinished_tasks |-> q.unfinished_tasks + 1]

\* the threads that are still running _file_logging_op
Running(w) == file_threads[w].state \in {"get", "log"}

\* self.handle(message) by thread t, lines 659-665: the queue and a thread are
\* fetched, (path, message) is put, and with join_main the thread waits in
\* log_queue.join(); next is what t does once handle has returned. The entries
\* are numbered in the order they are put; text is None for handle(None)
handle_(t, h, text, next) ==
    LET path == FileHandlers[h].filepath
        queues == get_file_queue(path)
        log_data == IF text = None THEN None
                    ELSE Some([seq |-> Len(file_threads) + 1, text |-> text[1]])
    IN /\ file_threads' = get_file_thread(path)
       /\ cached_queues' = [queues EXCEPT ![path] =
                               put(@, [logpath |-> path, log_data |-> log_data])]
       /\ file_caller' = [file_caller EXCEPT ![t] =
                             Some([handler |-> h, path |-> path, next |-> next,
                                   joining |-> FileHandlers[h].join_main])]

\* handle has returned to thread t: it did not join, or every entry put on the
\* queue has been marked done
Returned(t) ==
    /\ file_caller[t] # None
    /\ file_caller[t][1].joining =>
           cached_queues[file_caller[t][1].path].unfinished_tasks = 0

\* handler.handle(message): a message is written through handler h
FileHandle(t, h) ==
    /\ file_caller[t] = None
    /\ Len(file_threads) < MaxWrites
    /\ handle_(t, h, Some("message"), "return")
    /\ UNCHANGED <<cached_threads, logfiles, file_exits, FileKeep>>

\* the handle call of FileHandle returns
JoinReturn(t) ==
    /\ Returned(t)
    /\ file_caller[t][1].next = "return"
    /\ file_caller' = [file_caller EXCEPT ![t] = None]
    /\ UNCHANGED <<cached_queues, cached_threads, file_threads, logfiles, file_exits,
                   FileKeep>>

\* logger.remove_handler(handler) calls handler.exit_handler(), lines 258-259
\* and 685-686: the footer is handled first
exit_handler(t, h) ==
    /\ file_caller[t] = None
    /\ Len(file_threads) < MaxWrites
    /\ \A e \in file_exits : e.handler # h
    /\ \A u \in Threads : file_caller[u] # None => file_caller[u][1].handler # h
    /\ IF FileHandlers[h].footer # None
       THEN handle_(t, h, FileHandlers[h].footer, "stop")
       ELSE handle_(t, h, None, "exit")
    /\ UNCHANGED <<cached_threads, logfiles, file_exits, FileKeep>>

\* exit_handler, line 687: self.handle(None)
exit_handler_stop(t) ==
    /\ Returned(t)
    /\ file_caller[t][1].next = "stop"
    /\ handle_(t, file_caller[t][1].handler, None, "exit")
    /\ UNCHANGED <<cached_threads, logfiles, file_exits, FileKeep>>

\* the unfinished entries and the running threads of a path
Unfinished(path) == cached_queues[path].unfinished_tasks
LiveWorkers(path) == {w \in DOMAIN file_threads :
                         file_threads[w].queue = path /\ Running(w)}

\* entry text has been written to the file of path
InFile(path, text) ==
    IF path \in DOMAIN logfiles
    THEN \E i \in DOMAIN logfiles[path] : logfiles[path][i].text = text
    ELSE FALSE

\* exit_handler, line 688: self.log_queue does not exist (the attribute is
\* op_queue), so the join raises AttributeError, which remove_handler takes
\* for a handler without exit_handler (lines 260-261); it pops the handler and
\* returns
exit_handler_return(t) ==
    /\ Returned(t)
    /\ file_caller[t][1].next = "exit"
    /\ LET h == file_caller[t][1].handler
           path == file_caller[t][1].path
       IN file_exits' = file_exits \cup
              {[handler |-> h,
                footer_in_file |-> InFile(path, "footer"),
                unfinished_tasks |-> Unfinished(path),
                live |-> Cardinality(LiveWorkers(path))]}
    /\ file_caller' = [file_caller EXCEPT ![t] = None]
    /\ UNCHANGED <<cached_queues, cached_threads, file_threads, logfiles, FileKeep>>

\* _file_logging_op, line 621: q.get() returns the oldest entry of the queue;
\* every entry is a (path, data) pair, so the unpacking never raises TypeError
WorkerGet(w) ==
    /\ file_threads[w].state = "get"
    /\ cached_queues[file_threads[w].queue].queue # <<>>
    /\ LET path == file_threads[w].queue
       IN /\ file_threads' = [file_threads EXCEPT
                                 ![w].state = "log",
                                 ![w].item = Some(Head(cached_queues[path].queue))]
          /\ cached_queues' = [cached_queues EXCEPT ![path].queue = Tail(@)]
    /\ UNCHANGED <<cached_threads, logfiles, file_caller, file_exits, FileKeep>>

\* _file_logging_op, lines 625-626: _log_it appends the data to the file, then
\* q.task_done()
WorkerLog(w) ==
    /\ file_threads[w].state = "log"
    /\ file_threads[w].item[1].log_data # None
    /\ LET item == file_threads[w].item[1]
       IN /\ logfiles' = [p \in DOMAIN logfiles \cup {item.logpath} |->
                             IF p = item.logpath
                             THEN (IF p \in DOMAIN logfiles THEN logfiles[p] ELSE <<>>)
                                  \o <<item.log_data[1]>>
                             ELSE logfiles[p]]
          /\ cached_queues' = [cached_queues EXCEPT
                                  ![file_threads[w].queue].unfinished_tasks = @ - 1]
    /\ file_threads' = [file_threads EXCEPT ![w].state = "get", ![w].item = None]
    /\ UNCHANGED <<cached_threads, file_caller, file_exits, FileKeep>>

\* _log_it raises (open or writelines fails with IOError): nothing in
\* _file_logging_op catches it, the thread ends and q.task_done() is not called
WorkerFails(w) ==
    /\ file_threads[w].state = "log"
    /\ file_threads[w].item[1].log_data # None
    /\ file_threads' = [file_threads EXCEPT ![w].state = "failed"]
    /\ UNCHANGED <<cached_queues, cached_threads, logfiles, file_caller, file_exits,
                   FileKeep>>

\* the entry of handle(None): _log_it(path, None) calls log.writelines(None),
\* which raises TypeError; the thread ends, nothing is written and
\* q.task_done() is not called
WorkerStop(w) ==
    /\ file_threads[w].state = "log"
    /\ file_threads[w].item[1].log_data = None
    /\ file_threads' = [file_threads EXCEPT ![w].state = "stopped"]
    /\ UNCHANGED <<cached_queues, cached_threads, logfiles, file_caller, file_exits,
                   FileKeep>>

NextFile ==
    \/ \E t \in Threads, h \in FileHandlerIds : FileHandle(t, h)
    \/ \E t \in Threads : JoinReturn(t)
    \/ \E t \in Threads, h \in FileHandlerIds : exit_handler(t, h)
    \/ \E t \in Threads : exit_handler_stop(t)
    \/ \E t \in Threads : exit_handler_return(t)
    \/ \E w \in DOMAIN file_threads : WorkerGet(w)
    \/ \E w \in DOMAIN file_threads : WorkerLog(w)
    \/ \E w \in DOMAIN file_threads : WorkerFails(w)
    \/ \E w \in DOMAIN file_threads : WorkerStop(w)

SpecFile == Init /\ [][NextFile]_vars

-----------------------------------------------------------------------------
(* SpecRoot: threads run alternate_root blocks and look the root name up *)

\* the module global root_logger (line 790): the instance made at import
root_logger == 1

\* the state after import and after Logger('a') and Logger('b')
InitRoot ==
    /\ _logger_cache = (ROOT :> root_logger) @@ ("a" :> 2) @@ ("b" :> 3)
    /\ loggers = ImportedLoggers @@ (2 :> Logger__init__("a")) @@ (3 :> Logger__init__("b"))
    /\ handler_objs = ScenarioHandlers
    /\ pc = [t \in Threads |-> "idle"]
    /\ pending = [t \in Threads |-> NoPending]
    /\ handle = [t \in Threads |-> [n \in LoggerNames |-> None]]
    /\ trace = None
    /\ ops = 0
    /\ ctor = None
    /\ hcall = None
    /\ ThreadsIdle
    /\ NoDeferred
    /\ NoFiles
    /\ RootIdle
    /\ ApiIdle

RootKeep == <<loggers, handler_objs, pc, pending, trace, ops, ctor, hcall,
              threadVars, deferVars, fileVars, apiVars>>

\* with alternate_root(logger): up to the yield (lines 753-756); root_lock is
\* taken, original_root is read from the global root_logger, and the root name
\* is bound to logger
alternate_root_enter(t, logger) ==
    /\ root_block[t] = None
    /\ root_lock = None
    /\ root_lock' = Some(t)
    /\ root_block' = [root_block EXCEPT ![t] =
                         Some([logger |-> logger,
                               entered |-> _logger_cache[ROOT],
                               original_root |-> root_logger])]
    /\ _logger_cache' = [_logger_cache EXCEPT ![ROOT] = logger]
    /\ UNCHANGED <<handle, last_root, RootKeep>>

\* the block ends normally: line 757 binds the root name to original_root and
\* the with statement releases root_lock
alternate_root_exit(t) ==
    /\ root_block[t] # None
    /\ _logger_cache' = [_logger_cache EXCEPT ![ROOT] = root_block[t][1].original_root]
    /\ root_lock' = None
    /\ root_block' = [root_block EXCEPT ![t] = None]
    /\ last_root' = Some([thread |-> t,
                          entered |-> root_block[t][1].entered,
                          after |-> root_block[t][1].original_root,
                          raised |-> FALSE])
    /\ UNCHANGED <<handle, RootKeep>>

\* the block raises: the exception is thrown into the generator at the yield
\* (line 756), which has no try/finally, so line 757 is skipped; the with
\* statement releases root_lock
alternate_root_raise(t) ==
    /\ root_block[t] # None
    /\ root_lock' = None
    /\ root_block' = [root_block EXCEPT ![t] = None]
    /\ last_root' = Some([thread |-> t,
                          entered |-> root_block[t][1].entered,
                          after |-> _logger_cache[ROOT],
                          raised |-> TRUE])
    /\ UNCHANGED <<_logger_cache, handle, RootKeep>>

\* Logger('__main__') by thread t: the instance the registry has for the root
\* name (line 115; the name is always cached)
RootLookup(t) ==
    /\ handle[t][ROOT] # Some(_logger_cache[ROOT])
    /\ handle' = [handle EXCEPT ![t][ROOT] = Some(_logger_cache[ROOT])]
    /\ UNCHANGED <<_logger_cache, rootVars, RootKeep>>

NextRoot ==
    \/ \E t \in Threads, l \in DOMAIN loggers : alternate_root_enter(t, l)
    \/ \E t \in Threads : alternate_root_exit(t)
    \/ \E t \in Threads : alternate_root_raise(t)
    \/ \E t \in Threads : RootLookup(t)

SpecRoot == InitRoot /\ [][NextRoot]_vars

-----------------------------------------------------------------------------
(* SpecApi: config(), and the message text through the methods and the facade *)

\* LEVEL_LOOKUP (lines 70-77), for the levels of the leveled methods
LEVEL_LOOKUP ==
    [lvl \in MessageLevels |->
        CASE lvl = -1 -> "LOG"
          [] lvl = 0 -> "EXCEPTION"
          [] lvl = 1 -> "ERROR"
          [] lvl = 2 -> "WARNING"
          [] lvl = 3 -> "INFO"
          [] lvl = 4 -> "DEBUG"]

\* the module of the facade functions
SLOG == "general_utils.slog"

\* message texts are sequences of tokens; a template holds the replacement
\* fields {0} and {1}
Messages == {<<"m">>, <<"m", "{0}">>, <<"{0}", "{1}">>}

\* the positional substitution arguments of a call
Substitutions == {<<>>, <<"A">>, <<"A", "B">>}

\* the argument index of a replacement field, 0 for other tokens
Field(tok) == CASE tok = "{0}" -> 1 [] tok = "{1}" -> 2 [] OTHER -> 0

\* what stands for the text when str.format raises IndexError
IndexError == <<"IndexError">>

\* message.format(*args): every replacement field is replaced by its argument;
\* a field beyond the arguments raises IndexError, further arguments are ignored
format(message, args) ==
    IF \E i \in DOMAIN message : Field(message[i]) > Len(args)
    THEN IndexError
    ELSE [i \in DOMAIN message |->
             IF Field(message[i]) > 0 THEN args[Field(message[i])] ELSE message[i]]

\* base_formatter(msg, lvl) for a message of one line, lines 704-721
base_formatter(msg, lvl) ==
    IF msg = IndexError THEN IndexError ELSE <<LEVEL_LOOKUP[lvl], ":">> \o msg

\* lines 327-328, 371-372 and 420-421: if args: message = message.format(*args)
substituted(message, args) == IF args # <<>> THEN format(message, args) ELSE message

\* lines 373-374 and 422-423: if self.formatter: message = self.formatter(...)
formatted(lg, message, level) ==
    IF lg.formatter # None THEN base_formatter(message, level) ELSE message

\* the text a broadcast that is not standalone passes to handlers: substituted
\* and formatted once, in the bypass pass or before the normal pass
chain_message(lg, message, args, level) ==
    formatted(lg, substituted(message, args), level)

\* the text the standalone branch passes to handlers, lines 327-331
standalone_message(lg, message, args, level) == substituted(message, args)

\* Logger.broadcast(message, *args, level=level) from frame: the handlers it
\* invokes and the text it passes them; no text is made when the level filter
\* returns before any handler was called
broadcast_message(self, frame, level, message, args) ==
    LET b == broadcast(self, frame, level)
        lg == loggers[self]
    IN [calls |-> b.calls,
        text |-> IF lg.standalone
                 THEN Some(standalone_message(lg, message, args, level))
                 ELSE IF b.calls = <<>> /\ b.filtered THEN None
                 ELSE Some(chain_message(lg, message, args, level))]

\* the leveled methods and the level each passes to broadcast, lines 430-463
LeveledNames == {"write", "exception", "error", "warning", "info", "debug"}

method_level(name) ==
    CASE name = "write" -> WRITE_LEVEL
      [] name = "exception" -> EXCEPTION
      [] name = "error" -> ERROR
      [] name = "warning" -> WARNING
      [] name = "info" -> INFO
      [] name = "debug" -> DEBUG

\* logger.<name>(message, *args) called from frame
Logger_method(name, self, frame, message, args) ==
    broadcast_message(self, frame, method_level(name), message, args)

\* the *args a facade function is left with (lines 760-784): info and debug
\* declare a positional parameter level after message, which takes the first
\* substitution argument
facade_args(name, args) ==
    IF name \in {"info", "debug"} /\ args # <<>> THEN Tail(args) ELSE args

\* slog.<name>(message, *args) called from frame: root_logger.<name> is called
\* from the facade function, whose frame is in the slog module
facade(name, frame, message, args) ==
    Logger_method(name, root_logger, <<SLOG>> \o frame, message, facade_args(name, args))

\* the keyword arguments of a config() call: None for a parameter that is not
\* named, Some(value) for one that is
Formatters == {None, Some("base_formatter")}

ConfigParameters == {"level", "overrides_submodule_level", "standalone",
                     "level_exclusive", "formatter"}

ConfigCalls ==
    {kwargs \in [level : {None} \cup {Some(v) : v \in LoggerLevels},
                 overrides_submodule_level : {None, Some(TRUE), Some(FALSE)},
                 standalone : {None, Some(TRUE), Some(FALSE)},
                 level_exclusive : {None, Some(TRUE), Some(FALSE)},
                 formatter : {None} \cup {Some(f) : f \in Formatters}] :
        Cardinality({p \in ConfigParameters : kwargs[p] # None}) <= MaxNamed}

\* the value a parameter has inside the call
Parameter(kw, default) == IF kw = None THEN default ELSE kw[1]

\* Logger.config(**kwargs), lines 222-235: each parameter is assigned only if
\* its value is truthy
config_(lg, kwargs) ==
    LET level == Parameter(kwargs.level, DEFAULT_VERBOSITY)
        overrides_submodule_level == Parameter(kwargs.overrides_submodule_level, FALSE)
        standalone == Parameter(kwargs.standalone, FALSE)
        level_exclusive == Parameter(kwargs.level_exclusive, FALSE)
        formatter == Parameter(kwargs.formatter, None)
    IN [lg EXCEPT
           !.standalone = IF standalone THEN standalone ELSE @,
           !.level = IF level # 0 THEN level ELSE @,
           !.overrides_submodule_level =
               IF overrides_submodule_level THEN overrides_submodule_level ELSE @,
           !.level_exclusive = IF level_exclusive THEN level_exclusive ELSE @,
           !.formatter = IF formatter # None THEN formatter ELSE @]

ApiKeep == <<_logger_cache, handler_objs, pc, pending, handle, trace, ops, ctor, hcall,
             threadVars, deferVars, fileVars, rootVars>>

\* logger.config(**kwargs), between two leveled calls
config(l, kwargs) ==
    /\ sent = None
    /\ loggers' = [loggers EXCEPT ![l] = config_(@, kwargs)]
    /\ last_config' = Some([logger |-> l, kwargs |-> kwargs, before |-> loggers[l]])
    /\ UNCHANGED <<sent, ApiKeep>>

\* a leveled method of a logger is called
ApiMethod(name, self, frame, message, args) ==
    /\ sent = None
    /\ sent' = Some([via |-> "method", name |-> name, logger |-> self, frame |-> frame,
                     message |-> message, args |-> args]
                    @@ Logger_method(name, self, frame, message, args))
    /\ last_config' = None
    /\ UNCHANGED <<loggers, ApiKeep>>

\* a facade function is called
ApiFacade(name, frame, message, args) ==
    /\ sent = None
    /\ sent' = Some([via |-> "facade", name |-> name, logger |-> root_logger,
                     frame |-> frame, message |-> message, args |-> args]
                    @@ facade(name, frame, message, args))
    /\ last_config' = None
    /\ UNCHANGED <<loggers, ApiKeep>>

\* the leveled call returns
ApiReturn ==
    /\ sent # None
    /\ sent' = None
    /\ UNCHANGED <<loggers, last_config, ApiKeep>>

NextApi ==
    \/ \E l \in DOMAIN loggers, kwargs \in ConfigCalls : config(l, kwargs)
    \/ \E name \in LeveledNames, l \in DOMAIN loggers, f \in Stacks,
          message \in Messages, args \in Substitutions :
           ApiMethod(name, l, f, message, args)
    \/ \E name \in LeveledNames, f \in Stacks, message \in Messages,
          args \in Substitutions :
           ApiFacade(name, f, message, args)
    \/ ApiReturn

SpecApi == Init /\ [][NextApi]_vars

-----------------------------------------------------------------------------
(* What the claims speak about *)

\* the leveled call in progress, its logger, and the handlers it invoked in a pass
Call == trace[1]
Emitter == loggers[Call.logger]
InvokedIn(pass) == {Call.calls[i].handler : i \in {j \in DOMAIN Call.calls : Call.calls[j].pass = pass}}
Invoked == {Call.calls[i].handler : i \in DOMAIN Call.calls}

\* the resolved chain of the call and its overriding loggers
Chain == superloggers(Call.logger, Call.frame)
Overriders == SelectSeq(Chain, LAMBDA sl : loggers[sl].overrides_submodule_level)

\* the emitting logger's borrow_level_from names a logger that exists
BorrowsExisting ==
    /\ Emitter.borrow_level_from # None
    /\ Emitter.borrow_level_from[1] \in DOMAIN _logger_cache
Borrowed == loggers[_logger_cache[Emitter.borrow_level_from[1]]]

\* a message of level s passes a filter of level L
Passes(s, L, exclusive) == IF exclusive THEN s = L ELSE s <= L

-----------------------------------------------------------------------------
(* C1 *)

\* C1: whatever the interleaving of Logger(n) calls by the threads, the handle
\* every call returned for a name is the instance cached for that name, so all
\* handles of a name see the same attributes (a level set through one handle is
\* the level read through every other).
C1_SingletonByName ==
    \A t \in Threads, n \in LoggerNames :
        handle[t][n] # None =>
            /\ n \in DOMAIN _logger_cache
            /\ handle[t][n][1] = _logger_cache[n]
            /\ \A u \in Threads :
                   handle[u][n] # None =>
                       loggers[handle[u][n][1]].level = loggers[handle[t][n][1]].level

\* both threads hold a handle for "a", its level was assigned through one of
\* them, and thread 1 is inside another Logger("a") with a fresh instance built
C1_Witness ==
    /\ handle[1]["a"] # None
    /\ handle[2]["a"] # None
    /\ loggers[handle[2]["a"][1]].level = DEBUG
    /\ pc[1] = "constructed"
    /\ pending[1].name = Some("a")

-----------------------------------------------------------------------------
(* C2 *)

\* C2: when a non-standalone logger emits a message that passes the resolved
\* level filter, every normal handler attached to it is invoked in the normal
\* pass, whatever the call stack is.
C2_OwnHandlersInvoked ==
    trace # None =>
        ((~Emitter.standalone /\ ~Call.filtered) =>
            \A h \in Range(Emitter.handlers) : h \in InvokedIn("normal"))

-----------------------------------------------------------------------------
(* C3 *)

\* the logger's filter policy is its own: it is standalone, or nothing in its
\* chain overrides and it borrows no level
OwnPolicy ==
    \/ Emitter.standalone
    \/ Overriders = <<>> /\ ~BorrowsExisting

\* the normal handlers a call selects: the logger's own for a standalone logger,
\* else those of the chain (its own when the chain is empty)
SelectedNormal ==
    IF Emitter.standalone THEN Range(Emitter.handlers)
    ELSE Range(normal_pass(Call.logger, Chain, leaked_sm(Call.logger, Call.frame)))

\* C3: for a logger whose policy is its own, standalone or not, a message of
\* severity s in EXCEPTION..DEBUG reaches the selected normal handlers if and
\* only if s <= level (non-exclusive) or s = level (exclusive).
C3_LevelMonotonicity ==
    trace # None =>
        ((OwnPolicy /\ Call.level \in EXCEPTION..DEBUG) =>
            \A h \in SelectedNormal :
                (h \in Invoked) <=>
                    Passes(Call.level, Emitter.level, Emitter.level_exclusive))

-----------------------------------------------------------------------------
(* C4 *)

\* C4: every always-evaluate handler attached to the emitting logger is invoked
\* for every message it emits, whatever its level settings and the call stack.
C4_BypassInvariance ==
    trace # None => \A h \in Range(Emitter.bypass_handlers) : h \in Invoked

-----------------------------------------------------------------------------
(* C5 *)

\* C5: within one broadcast no handler is invoked twice in the same pass.
C5_AtMostOncePerPass ==
    trace # None =>
        \A i, j \in DOMAIN Call.calls :
            (i # j /\ Call.calls[i].pass = Call.calls[j].pass) =>
                Call.calls[i].handler # Call.calls[j].handler

-----------------------------------------------------------------------------
(* C6 *)

\* C6 as claimed: when the chain has an overriding logger, the most global one
\* decides the filter of the call, also when the emitter borrows a level.
C6_OverriderDecides ==
    (trace # None /\ ~Emitter.standalone /\ Overriders # <<>>) =>
        /\ Call.policy = Some(policy_of(loggers[Last(Overriders)]))
        /\ Call.filtered = ~Passes(Call.level, loggers[Last(Overriders)].level,
                                   loggers[Last(Overriders)].level_exclusive)

\* the policy lines 379-397 give: the borrowed logger's when borrow_level_from
\* names an existing logger, the emitter's own when it names none that exists,
\* else the most global overrider's, else the emitter's own
AmendedPolicy ==
    IF BorrowsExisting THEN Borrowed
    ELSE IF Emitter.borrow_level_from # None THEN Emitter
    ELSE IF Overriders # <<>> THEN loggers[Last(Overriders)]
    ELSE Emitter

\* C6 amended: a borrowed level of an existing logger decides the filter, also
\* when the chain has an overriding logger; the overrider decides only when
\* borrow_level_from is not set. The normal pass runs exactly when the message
\* passes that policy.
C6_BorrowedLevelDecides ==
    (trace # None /\ ~Emitter.standalone) =>
        /\ Call.policy = Some(policy_of(AmendedPolicy))
        /\ Call.filtered = ~Passes(Call.level, AmendedPolicy.level,
                                   AmendedPolicy.level_exclusive)
        /\ Call.filtered => InvokedIn("normal") = {}
        /\ ~Call.filtered => InvokedIn("normal") = SelectedNormal

\* the emitter borrows from an existing logger, the chain has an overrider with
\* another policy that would let the message through, and the call is filtered
C6_Witness ==
    /\ trace # None
    /\ ~Emitter.standalone
    /\ BorrowsExisting
    /\ Overriders # <<>>
    /\ Passes(Call.level, loggers[Last(Overriders)].level,
              loggers[Last(Overriders)].level_exclusive)
    /\ Call.filtered
    /\ Call.policy = Some(policy_of(Borrowed))

-----------------------------------------------------------------------------
(* C7 *)

\* C7: a write() message is never suppressed by the logger filter: the normal
\* pass runs for every resolved level, exclusive or not.
C7_WriteNeverSuppressed ==
    (trace # None /\ Call.level = WRITE_LEVEL /\ ~Emitter.standalone) =>
        /\ ~Call.filtered
        /\ SelectedNormal \subseteq InvokedIn("normal")

-----------------------------------------------------------------------------
(* C8 *)

\* the handlers attached to the emitting logger
Attached == Range(Emitter.handlers) \cup Range(Emitter.bypass_handlers)

\* C8: a standalone logger's message reaches only handlers attached to that
\* logger itself.
C8_StandaloneIsolation ==
    (trace # None /\ Emitter.standalone) => Invoked \subseteq Attached

\* a standalone logger invoked a handler of its own while another logger, whose
\* module is on the call stack or is the root, has a handler that is not
\* attached to the standalone one
C8_Witness ==
    /\ trace # None
    /\ Emitter.standalone
    /\ Invoked # {}
    /\ \E l \in DOMAIN loggers \ {Call.logger} :
           /\ ~loggers[l].standalone
           /\ loggers[l].lookup \in Range(Call.frame) \cup {ROOT}
           /\ Range(loggers[l].handlers) \ Attached # {}

-----------------------------------------------------------------------------
(* C9 *)

HCall == hcall[1]
HObj == handler_objs[HCall.handler]

\* C9: a handler that is not always-evaluate acts on a message of level s if and
\* only if s <= its level (non-exclusive) or s = its level (exclusive).
C9_HandlerFilter ==
    (hcall # None /\ ~HObj.always_evaluate) =>
        (HCall.acted <=> Passes(HCall.level, HObj.level, HObj.level_exclusive))

\* a non-exclusive INFO handler was invoked with a debug message and did not act
C9_Witness ==
    /\ hcall # None
    /\ HCall.handler = "h1"
    /\ ~HObj.always_evaluate
    /\ ~HObj.level_exclusive
    /\ HObj.level = INFO
    /\ HCall.level = DEBUG
    /\ ~HCall.acted

-----------------------------------------------------------------------------
(* C10 *)

\* h1 was constructed without a level and without always_evaluate and its level
\* has not been assigned since
DefaultLevelled ==
    /\ hcall # None
    /\ HCall.handler = "h1"
    /\ ctor[1].level = None
    /\ ~ctor[1].always_evaluate
    /\ ~ctor[1].level_set

\* C10 as claimed: such a handler acts on no message of any level.
C10_DefaultNeverFires == DefaultLevelled => ~HCall.acted

\* C10 amended: such a handler has level 100; it acts on every message of every
\* level when it is non-exclusive and on none when it is level-exclusive.
C10_DefaultAlwaysFires ==
    DefaultLevelled =>
        /\ HObj.level = HANDLER_DEFAULT_LEVEL
        /\ HCall.acted <=> ~ctor[1].level_exclusive

\* a non-exclusive handler constructed without a level acted on a debug message
C10_Witness ==
    /\ DefaultLevelled
    /\ ~ctor[1].level_exclusive
    /\ HCall.level = DEBUG
    /\ HCall.acted

-----------------------------------------------------------------------------
(* C11 *)

\* the last handler-management call, and the threads inside a use_handlers block
LastOp == last_op[1]
Inside == {t \in Threads : IF block[t] = None THEN FALSE ELSE block[t][1].inside}

\* C11: after every add_handler, remove_handler, add_handlers or remove_handlers
\* call, enter_handler has been called once on each handler the call attached
\* and on no other, and exit_handler once on each handler it detached and on no
\* other.
C11_HooksMatchAttachment ==
    (last_op # None
     /\ LastOp.op \in {"add_handler", "remove_handler", "add_handlers", "remove_handlers"}) =>
        \A h \in HandlerIds :
            /\ Count(LastOp.enter, h) =
                   (IF h \notin LastOp.before /\ h \in LastOp.after THEN 1 ELSE 0)
            /\ Count(LastOp.exit, h) =
                   (IF h \in LastOp.before /\ h \notin LastOp.after THEN 1 ELSE 0)

-----------------------------------------------------------------------------
(* C12 *)

\* C12: when a use_handlers(H) block has ended, normally or by an exception,
\* the logger's handler list is the one it had when the block was entered and
\* exit_handler has been called on the handlers of H, once for each.
C12_UseHandlersRestores ==
    (last_op # None /\ LastOp.op = "use_handlers") =>
        /\ loggers[LastOp.logger].handlers = LastOp.original_handlers
        /\ LastOp.exit = LastOp.handlers

-----------------------------------------------------------------------------
(* C13 *)

\* the loggers a broadcast in flight consults
Consulted(c) == Range(c.chain) \cup {c.logger}

\* C13: while a thread is inside a broadcast, the handlers attached to the
\* loggers it consults are those attached when it resolved its chain: no
\* add_handler or remove_handler of another thread takes effect in between.
C13_NoMutationInFlight ==
    \A t \in Threads :
        call[t] # None =>
            \A l \in Consulted(call[t][1]) :
                /\ loggers[l]._handlers = call[t][1].lists[l]._handlers
                /\ loggers[l]._bypass_handlers = call[t][1].lists[l]._bypass_handlers
                /\ loggers[l].bypass_handlers = call[t][1].lists[l].bypass_handlers

-----------------------------------------------------------------------------
(* C14 *)

\* at most one thread is inside a use_handlers block, and it holds
\* handler_ctx_lock, which is not the lock a broadcast holds
ExclusiveBlock ==
    /\ Cardinality(Inside) <= 1
    /\ \A t \in Inside : handler_ctx_lock = Some(t)
    /\ \A t \in Threads : call[t] # None => handler_lock = Some(t)

\* C14: at most one thread is inside a use_handlers block of a logger, under a
\* lock of its own, and a thread is inside only when every earlier block of
\* another thread on that logger has restored the original handlers.
C14_ExclusiveSwap ==
    /\ ExclusiveBlock
    /\ \A t \in Inside : \A u \in Threads \ {t} :
           block[u] # None => block[u][1].logger # block[t][1].logger

-----------------------------------------------------------------------------
(* C15 *)

\* C15: no leveled call ends with the exception of a handler, and none ends
\* with a selected handler left uninvoked.
C15_HandlerErrorContained ==
    \A t \in Threads :
        outcome[t] # None => (~outcome[t][1].raised /\ outcome[t][1].skipped = {})

-----------------------------------------------------------------------------
(* C16 *)

\* the DeferredHandler and its last dump
D == deferred[1]
Rep == replayed[1]

\* the messages of a sequence whose level is in C
Eligible(seq, C) == SelectSeq(seq, LAMBDA m : m.level \in C)

\* the last n of a sequence, all of it without a bound
KeepLast(seq, maxlen) ==
    IF maxlen = None THEN seq
    ELSE IF Len(seq) <= maxlen[1] THEN seq
    ELSE SubSeq(seq, Len(seq) - maxlen[1] + 1, Len(seq))

\* the method of a handler that handles a level
LevelMethod(level) ==
    CASE level = DEBUG -> "handle_debug"
      [] level = INFO -> "handle_info"
      [] level = WARNING -> "handle_warning"
      [] level = ERROR -> "handle_error"
      [] level = EXCEPTION -> "handle_exception"
      [] level = WRITE_LEVEL -> "handle"

\* a dump dispatched exactly the messages of seq, in that order, each to the
\* method of its level
Replays(seq) ==
    /\ Len(Rep.entries) = Len(seq)
    /\ \A i \in 1..Len(seq) :
           /\ Rep.entries[i].message = seq[i].message
           /\ Rep.entries[i].level = seq[i].level
           /\ Rep.entries[i].method = LevelMethod(seq[i].level)

\* the cache was unbounded, or not full, when the dump began
NoEviction ==
    \/ Rep.maxlen = None
    \/ Len(Eligible(Rep.before, D.cache_levels)) <= Rep.maxlen[1]

-----------------------------------------------------------------------------
(* C17 *)

\* C17: the cache of a handler created with max_cache_size N never holds more
\* than N entries: it holds the last N eligible messages since the last dump.
C17_CacheBounded ==
    (deferred # None /\ D.max_cache_size # None) =>
        /\ Len(D.cache) <= D.max_cache_size[1]
        /\ \A i \in 1..Len(D.cache) :
               D.cache[i] = KeepLast(Eligible(Since, D.cache_levels), D.max_cache_size)[i]

-----------------------------------------------------------------------------
(* C18 *)

\* the levels of the messages of a sequence
LevelsIn(seq) == {seq[i].level : i \in DOMAIN seq}

\* C18: for a JustInCaseHandler whose cache levels contain the levels used:
\* as long as no dump has followed, every message since the last dump is less
\* severe than the trigger level and the cache holds them (so after a dump a
\* new message is alone in the cache); a dump caused by a message is caused by
\* the first message at or above the trigger level, replays the cache in
\* arrival order ending with that message, and leaves the cache empty.
C18_TriggerDump ==
    (deferred # None /\ D.trigger_level # None) =>
        /\ (replayed = None /\ LevelsIn(Since) \subseteq D.cache_levels) =>
               /\ \A i \in DOMAIN Since : Since[i].level > D.trigger_level[1]
               /\ D.cache = KeepLast(Since, D.maxlen)
        /\ (replayed # None /\ Rep.by = "trigger"
            /\ LevelsIn(Rep.before) \subseteq D.cache_levels) =>
               /\ Last(Rep.before).level <= D.trigger_level[1]
               /\ \A i \in 1..(Len(Rep.before) - 1) :
                      Rep.before[i].level > D.trigger_level[1]
               /\ Replays(KeepLast(Rep.before, Rep.maxlen))
               /\ Last(Rep.entries).message = Last(Rep.before).message
               /\ D.cache = <<>>

\* trigger level ERROR, cache levels {DEBUG, ERROR}: two debug messages and an
\* error have been received, the error caused the dump, and the debug message
\* that followed is alone in the cache
C18_Witness ==
    /\ deferred # None
    /\ D.trigger_level = Some(ERROR)
    /\ D.cache_levels = {DEBUG, ERROR}
    /\ replayed = None
    /\ arrived.mark = 3
    /\ arrived.log[1].level = DEBUG
    /\ arrived.log[2].level = DEBUG
    /\ arrived.log[3].level = ERROR
    /\ Len(Since) = 1
    /\ Since[1].level = DEBUG
    /\ D.cache = Since

-----------------------------------------------------------------------------
(* C19 *)

\* C19 as claimed: the message that causes a dump is the last one the dump
\* replays, whatever the trigger level and the cache levels.
C19_TriggerAlwaysCached ==
    (replayed # None /\ Rep.by = "trigger") =>
        /\ Rep.entries # <<>>
        /\ Last(Rep.entries).message = Last(Rep.before).message

\* C19 amended: the message that causes a dump is cached first, and so replayed
\* last, exactly when its level is in the cache levels; a triggering message of
\* another level (a write() message under the default cache levels) is not
\* replayed at all.
C19_TriggerCachedIfEligible ==
    (replayed # None /\ Rep.by = "trigger") =>
        IF Last(Rep.before).level \in D.cache_levels
        THEN /\ Rep.entries # <<>>
             /\ Last(Rep.entries).message = Last(Rep.before).message
        ELSE \A i \in DOMAIN Rep.entries :
                 Rep.entries[i].message # Last(Rep.before).message

\* a JustInCaseHandler with the default cache levels received a write()
\* message: it caused a dump that replayed earlier messages but not itself
C19_Witness ==
    /\ replayed # None
    /\ Rep.by = "trigger"
    /\ D.cache_levels = 0..5
    /\ Last(Rep.before).level = WRITE_LEVEL
    /\ Rep.entries # <<>>
    /\ \A i \in DOMAIN Rep.entries : Rep.entries[i].message # Last(Rep.before).message

-----------------------------------------------------------------------------
(* C20 *)

\* C20: for each destination path at most one worker thread is alive.
C20_OneWorkerPerPath ==
    \A path \in Paths : Cardinality(LiveWorkers(path)) <= 1

-----------------------------------------------------------------------------
(* C21 *)

\* C21: the messages of a file are in the order in which they were enqueued
\* for its path (entries are numbered in the order of their put).
C21_FileInEnqueueOrder ==
    \A path \in DOMAIN logfiles :
        \A i, j \in DOMAIN logfiles[path] :
            i < j => logfiles[path][i].seq < logfiles[path][j].seq

-----------------------------------------------------------------------------
(* C22 *)

\* C22: when the removal of a FileLogHandler returns, the footer is in the
\* file, the queue of the path has no unfinished entry and no worker thread
\* of the path is alive.
C22_RemovalLeavesNothingBehind ==
    \A e \in file_exits :
        /\ e.footer_in_file
        /\ e.unfinished_tasks = 0
        /\ e.live = 0

-----------------------------------------------------------------------------
(* C23 *)

\* C23: no caller stays blocked in the join of its handle call on a path on
\* which a worker thread has failed to write an entry.
C23_FailureUnblocksCaller ==
    \A t \in Threads :
        (file_caller[t] # None /\ file_caller[t][1].joining) =>
            \A w \in DOMAIN file_threads :
                ~(/\ file_threads[w].queue = file_caller[t][1].path
                  /\ file_threads[w].state = "failed")

-----------------------------------------------------------------------------
(* C24 *)

\* C24: after an alternate_root block has ended, normally or by an exception,
\* the root name is bound to the logger it was bound to when the block was
\* entered, and root_lock is free unless another block is active.
C24_RootRestored ==
    /\ last_root # None => last_root[1].after = last_root[1].entered
    /\ (\A t \in Threads : root_block[t] = None) => root_lock = None

-----------------------------------------------------------------------------
(* C25 *)

\* the leveled call in progress
Sent == sent[1]

\* C25: the handlers of a standalone logger that has a formatter get the text
\* that a logger that is not standalone gets to its handlers with the same
\* formatter: substituted and formatted.
C25_StandaloneFormats ==
    (/\ sent # None
     /\ Sent.via = "method"
     /\ loggers[Sent.logger].standalone
     /\ loggers[Sent.logger].formatter # None
     /\ Sent.calls # <<>>)
    => Sent.text = Some(chain_message(loggers[Sent.logger], Sent.message, Sent.args,
                                      method_level(Sent.name)))

-----------------------------------------------------------------------------
(* C26 *)

\* the config() call just made
Cfg == last_config[1]

\* C26: after config(...), every attribute named in the call has the value
\* given and every other attribute has the value it had before.
C26_ConfigSetsNamedOnly ==
    last_config # None =>
        LET after == loggers[Cfg.logger]
            before == Cfg.before
            kw == Cfg.kwargs
        IN /\ after.level = Parameter(kw.level, before.level)
           /\ after.overrides_submodule_level =
                  Parameter(kw.overrides_submodule_level, before.overrides_submodule_level)
           /\ after.standalone = Parameter(kw.standalone, before.standalone)
           /\ after.level_exclusive = Parameter(kw.level_exclusive, before.level_exclusive)
           /\ after.formatter = Parameter(kw.formatter, before.formatter)

-----------------------------------------------------------------------------
(* C27 *)

\* C27: a facade function invokes the handlers, with the text, that the method
\* of the same name invokes when called on the root logger with the same
\* arguments from the same place.
C27_FacadeIsRootMethod ==
    (sent # None /\ Sent.via = "facade") =>
        LET m == Logger_method(Sent.name, root_logger, Sent.frame, Sent.message, Sent.args)
        IN /\ Sent.calls = m.calls
           /\ Sent.text = m.text

-----------------------------------------------------------------------------
(* C28 *)

\* C28: while a use_handlers block is active on a logger its active handler
\* list is the list given to the block, whatever is added meanwhile; and after
\* the block has exited normally every handler filed in the logger is in its
\* active handler list.
C28_AddDuringBlock ==
    /\ \A t \in Threads :
           (block[t] # None /\ block[t][1].inside) =>
               loggers[block[t][1].logger].handlers = block[t][1].handlers
    /\ (last_op # None /\ LastOp.op = "use_handlers" /\ ~LastOp.raised) =>
           loggers[LastOp.logger]._handlers \subseteq Range(loggers[LastOp.logger].handlers)

-----------------------------------------------------------------------------
(* C29 *)

\* C29: no thread inside a leveled method waits for handler_lock while it
\* holds handler_lock itself (such a call never returns and never frees it).
C29_NoSelfDeadlock ==
    \A t \in Threads :
        (call[t] # None /\ call[t][1].phase = "waiting") => handler_lock # Some(t)

-----------------------------------------------------------------------------
(* C30 *)

\* C30: a handler constructed with a level from EXCEPTION to DEBUG, and not
\* assigned another since, is invoked with that level as its threshold; when
\* it is neither exclusive nor always-evaluate it acts on a message of level
\* EXCEPTION to DEBUG exactly if that level is at most the constructor's.
C30_ThresholdIsCtorLevel ==
    (/\ hcall # None
     /\ HCall.handler = "h1"
     /\ ctor[1].level # None
     /\ ctor[1].level[1] \in EXCEPTION..DEBUG
     /\ ~ctor[1].level_set)
    => /\ HObj.level = ctor[1].level[1]
       /\ (/\ HCall.level \in EXCEPTION..DEBUG
           /\ ~ctor[1].level_exclusive
           /\ ~ctor[1].always_evaluate)
          => (HCall.acted <=> HCall.level <= ctor[1].level[1])

=============================================================================
